---- MODULE Spec2Model ----
(***************************************************************************)
(* Offer lifecycle of the P2P Telegram Bitcoin shop bot.                   *)
(*                                                                         *)
(* The bot is built with telebot.Settings that leaves Synchronous unset,   *)
(* so every inbound command or callback runs in its own goroutine: the     *)
(* handlers below are multi-step processes whose steps are the calls that  *)
(* touch shared state (one SQLite statement, one BTCPay HTTP exchange).    *)
(* Handlers share the offers/users tables and the payment backend.         *)
(***************************************************************************)
EXTENDS Integers, Sequences, FiniteSets, TLC

----------------------------------------------------------------------------
\* Bounds and input sets

\* Telegram identities that send commands.
UserIDs == {1, 2}

\* Slots for handler goroutines that are in flight at the same time.
Slots == {1, 2}

\* Cap on the invoices the payment backend issues (hence on offers created).
MaxInvoices == 1

\* strconv.ParseFloat also accepts the text "NaN" and returns the float NaN;
\* among the integers that stand for float64 values NaN is this one.
NaN == 1000000

\* /sell arguments <<amount_btc, price_usd>> as ParseFloat returns them, in
\* units of 10^-9 BTC and whole USD.
SellArgs == {<<0, 1>>, <<10, 0>>, <<10, 1>>}

\* The arguments of the runs that only create offers: also a negative number
\* and the text "NaN".
ParsedSellArgs == SellArgs \cup {<<-1, 1>>, <<NaN, 1>>}

\* Cap on the invoices issued in the runs that only create offers.
MaxCreated == 2

\* The arguments of the runs about the amount of the invoice: 1 satoshi,
\* half a satoshi, 3 satoshis (0.00000003 is not a binary fraction, and the
\* float64 nearest to it times 100_000_000 is below 3), 0.1 BTC.
AmountArgs == {<<10, 1>>, <<5, 1>>, <<30, 1>>, <<100000000, 1>>}

\* Cap on the invoices issued in the runs about the amount of the invoice.
MaxPriced == 1

\* Cap on the offers of the tables that the marketplace runs start from.
MaxOffers == 21

\* Cap on the offer rows in the runs that call the Store directly.
MaxRows == 2

\* The (username, time of the call) pairs of the direct calls of RegisterUser:
\* a user who registers again does so later and under another handle.
Registrations == {<<1, 1>>, <<2, 2>>}

\* price_usd values passed to the Store's CreateOffer.
StorePrices == {1, NaN}

\* Values of limit passed to GetAllOffers.
Limits == {-1, 0, 1, 2}

----------------------------------------------------------------------------
\* models.OfferStatus

StatusPending == "pending"
StatusPaid == "paid"
StatusCompleted == "completed"
StatusCancelled == "cancelled"

Statuses == {StatusPending, StatusPaid, StatusCompleted, StatusCancelled}

\* Limit showMarketplace passes to GetAllOffers.
MarketplaceLimit == 20

\* listOffers sends the per-offer message only for loop indexes below this.
ListSendLimit == 10

\* Satoshis per BTC, in the model's amount unit (10^-9 BTC per unit).
UnitsPerSat == 10

\* The smallest int64, at the width of the model's integers.
MinInt64 == -32768

\* float64 comparisons: every comparison with a NaN is false.
FloatLeq(x, y) == x # NaN /\ y # NaN /\ x <= y

FloatGt(x, y) == x # NaN /\ y # NaN /\ x > y

VARIABLES
    users,      \* users table: user_id (PRIMARY KEY) -> username of the row
    offers,     \* offers table: sequence of rows, row i has id i (AUTOINCREMENT)
    invoices,   \* payment backend: sequence of issued invoices, invoice k has id k
    settled,    \* payment backend: ids of invoices whose status is Settled/Complete
    procs,      \* handler goroutines in flight, oldest first: position and locals
    out,        \* what the step just taken reported to the requester / caller
    everPaid,   \* history: ids of offers whose stored status has ever been paid
    quota       \* payment backend: number of invoices it will still issue

vars == <<users, offers, invoices, settled, procs, out, everPaid, quota>>

----------------------------------------------------------------------------
\* Store (db.Database): each operator is one SQL statement on the tables.

\* Display handle stored with a user row; 0 stands for an absent handle.
Username(u) == IF u = 1 THEN 1 ELSE 0

\* Mutant: every user counts as registered.
UserExistsAlways(us, userID) == TRUE

UserExists(us, userID) == Cardinality({u \in DOMAIN us : u = userID}) > 0

\* Mutant: INSERT OR REPLACE, a second registration rewrites the row.
RegisterUserReplaces(us, userID, username, now) ==
    [u \in DOMAIN us \cup {userID} |->
        IF u = userID THEN [username |-> username, created_at |-> now] ELSE us[u]]

\* INSERT OR IGNORE INTO users: a row whose user_id is present stays as it is.
\* now is the time.Now() that the statement binds to created_at.
RegisterUser(us, userID, username, now) ==
    IF userID \in DOMAIN us
    THEN us
    ELSE [u \in DOMAIN us \cup {userID} |->
            IF u = userID THEN [username |-> username, created_at |-> now] ELSE us[u]]

\* SQLite stores a NaN that is bound to a REAL column as NULL; among the
\* integers that stand for column values NULL is this one.
Null == -1000000

Real(x) == IF x = NaN THEN Null ELSE x

\* rows.Scan into the float64 fields of models.Offer fails on a NULL.
Scans(o) == o.amount_btc # Null /\ o.price_usd # Null

\* Mutant: the insert gives every row the id 1.
CreateOfferSameID(os, userID, amountBTC, priceUSD, invoiceID, invoiceLink) ==
    Append(os, [id |-> 1,
                user_id |-> userID,
                amount_btc |-> Real(amountBTC),
                price_usd |-> Real(priceUSD),
                invoice_id |-> invoiceID,
                invoice_link |-> invoiceLink,
                status |-> StatusPending,
                created_at |-> Len(os) + 1])

\* Mutant: the insert binds the amount and the price to each other's column.
CreateOfferSwapsTerms(os, userID, amountBTC, priceUSD, invoiceID, invoiceLink) ==
    Append(os, [id |-> Len(os) + 1,
                user_id |-> userID,
                amount_btc |-> Real(priceUSD),
                price_usd |-> Real(amountBTC),
                invoice_id |-> invoiceID,
                invoice_link |-> invoiceLink,
                status |-> StatusPending,
                created_at |-> Len(os) + 1])

\* Mutant: the insert leaves the invoice columns empty.
CreateOfferUnbound(os, userID, amountBTC, priceUSD, invoiceID, invoiceLink) ==
    Append(os, [id |-> Len(os) + 1,
                user_id |-> userID,
                amount_btc |-> Real(amountBTC),
                price_usd |-> Real(priceUSD),
                invoice_id |-> 0,
                invoice_link |-> 0,
                status |-> StatusPending,
                created_at |-> Len(os) + 1])

CreateOffer(os, userID, amountBTC, priceUSD, invoiceID, invoiceLink) ==
    Append(os, [id |-> Len(os) + 1,
                user_id |-> userID,
                amount_btc |-> Real(amountBTC),
                price_usd |-> Real(priceUSD),
                invoice_id |-> invoiceID,
                invoice_link |-> invoiceLink,
                status |-> StatusPending,
                created_at |-> Len(os) + 1])

RECURSIVE OrderByCreatedAtDesc(_)
OrderByCreatedAtDesc(rows) ==
    IF rows = {} THEN <<>>
    ELSE LET m == CHOOSE o \in rows : \A x \in rows : x.created_at <= o.created_at
         IN  <<m>> \o OrderByCreatedAtDesc(rows \ {m})

Rows(os) == {os[i] : i \in DOMAIN os}

\* A row whose Scan fails is left out of the result (continue).
GetUserOffers(os, userID) ==
    SelectSeq(OrderByCreatedAtDesc({o \in Rows(os) : o.user_id = userID}), Scans)

\* JOIN users: a row is returned only when its owner's user row exists.
OfferFound(os, us, offerID) ==
    offerID \in DOMAIN os /\ os[offerID].user_id \in DOMAIN us

\* An offer row with u.username of its owner's user row.
Joined(o, us) ==
    [id |-> o.id, user_id |-> o.user_id, username |-> us[o.user_id].username,
     amount_btc |-> o.amount_btc, price_usd |-> o.price_usd,
     invoice_id |-> o.invoice_id, invoice_link |-> o.invoice_link,
     status |-> o.status, created_at |-> o.created_at]

GetOffer(os, us, offerID) == Joined(os[offerID], us)

\* Mutant: the update also clears the payment link of the row.
UpdateOfferStatusClearsLink(os, offerID, status) ==
    [i \in DOMAIN os |-> IF os[i].id = offerID
                         THEN [os[i] EXCEPT !.status = status, !.invoice_link = 0]
                         ELSE os[i]]

\* Mutant: the statement deletes the row instead of updating it.
UpdateOfferStatusDeletes(os, offerID, status) ==
    SelectSeq(os, LAMBDA o : o.id # offerID)

UpdateOfferStatus(os, offerID, status) ==
    [i \in DOMAIN os |-> IF os[i].id = offerID
                         THEN [os[i] EXCEPT !.status = status]
                         ELSE os[i]]

Take(s, n) == IF Len(s) <= n THEN s ELSE SubSeq(s, 1, n)

\* LIMIT is part of the query; a row whose Scan fails is left out of the
\* result afterwards (continue).
GetAllOffers(os, us, limit) ==
    LET joined == OrderByCreatedAtDesc(
                     {Joined(o, us) : o \in {r \in Rows(os) : r.user_id \in DOMAIN us}})
        fetched == IF limit > 0 THEN Take(joined, limit) ELSE joined
    IN  SelectSeq(fetched, Scans)

----------------------------------------------------------------------------
\* Payment backend client (btcpay.Client)

\* float64 arithmetic (IEEE 754 binary64, round to nearest, ties to even).
\* A positive finite float64 is [m, e]: the significand m as a sequence of
\* bits, most significant first, and the exponent e of its last bit, so that
\* the value is m * 2^e. Significands and the exact products are wider than
\* the model's integers, hence the bit sequences.

\* The binary digits of a natural number of the model's integers, most
\* significant first.
Bits(n) ==
    LET width == IF n \div 2^30 > 0 THEN 31
                 ELSE CHOOSE k \in 0..30 :
                        n \div 2^k = 0 /\ (k = 0 \/ n \div 2^(k - 1) > 0)
    IN  [i \in 1..width |-> (n \div 2^(width - i)) % 2]

Zeros(k) == [i \in 1..k |-> 0]

Reverse(s) == [i \in 1..Len(s) |-> s[Len(s) + 1 - i]]

\* The number without its leading zeros.
Strip(bs) ==
    LET ones == {i \in 1..Len(bs) : bs[i] = 1}
    IN  IF ones = {} THEN <<>>
        ELSE SubSeq(bs, CHOOSE i \in ones : \A j \in ones : i <= j, Len(bs))

\* The value of a bit sequence that fits the model's integers.
RECURSIVE ToInt(_)
ToInt(bs) ==
    IF Len(bs) = 0 THEN 0
    ELSE IF Len(bs) = 1 THEN bs[1]
    ELSE LET half == Len(bs) \div 2
         IN  ToInt(SubSeq(bs, 1, half)) * 2^(Len(bs) - half)
                 + ToInt(SubSeq(bs, half + 1, Len(bs)))

\* bs + 1
Inc(bs) ==
    LET zeros == {i \in 1..Len(bs) : bs[i] = 0}
        last == CHOOSE i \in zeros : \A j \in zeros : j <= i
    IN  IF zeros = {} THEN <<1>> \o Zeros(Len(bs))
        ELSE [i \in 1..Len(bs) |-> IF i < last THEN bs[i]
                                   ELSE IF i = last THEN 1 ELSE 0]

\* Long division of bs by d, entered with the remainder r of the bits
\* before bs: the quotient bits of bs and the remainder after them.
RECURSIVE DivMod(_, _, _)
DivMod(bs, d, r) ==
    IF Len(bs) = 0 THEN [q |-> <<>>, r |-> r]
    ELSE IF Len(bs) = 1
    THEN LET x == 2 * r + bs[1]
         IN  IF x >= d THEN [q |-> <<1>>, r |-> x - d] ELSE [q |-> <<0>>, r |-> x]
    ELSE LET half == Len(bs) \div 2
             left == DivMod(SubSeq(bs, 1, half), d, r)
             right == DivMod(SubSeq(bs, half + 1, Len(bs)), d, left.r)
         IN  [q |-> left.q \o right.q, r |-> right.r]

\* low * c + carry on bits given least significant first: the bits of the
\* product under low, and the carry over them.
RECURSIVE TimesLow(_, _, _)
TimesLow(low, c, carry) ==
    IF Len(low) = 0 THEN [p |-> <<>>, carry |-> carry]
    ELSE IF Len(low) = 1
    THEN LET x == carry + low[1] * c
         IN  [p |-> <<x % 2>>, carry |-> x \div 2]
    ELSE LET half == Len(low) \div 2
             lower == TimesLow(SubSeq(low, 1, half), c, carry)
             upper == TimesLow(SubSeq(low, half + 1, Len(low)), c, lower.carry)
         IN  [p |-> lower.p \o upper.p, carry |-> upper.carry]

\* bs * c, exactly.
Times(bs, c) ==
    LET low == TimesLow(Reverse(bs), c, 0)
    IN  Strip(Bits(low.carry) \o Reverse(low.p))

\* Width of the significand of a float64.
Mantissa == 53

\* The first `width` bits of bs rounded to nearest, ties to even, on the bits
\* that are dropped.
RoundToEven(bs, width) ==
    LET top == SubSeq(bs, 1, width)
        rest == SubSeq(bs, width + 1, Len(bs))
        more == \E i \in 2..Len(rest) : rest[i] = 1
        up == rest # <<>> /\ rest[1] = 1 /\ (more \/ top[width] = 1)
    IN  IF up THEN Inc(top) ELSE top

\* 1 BTC = 100,000,000 sats
SatsPerBTC == 100000000

UnitsPerBTC == UnitsPerSat * SatsPerBTC

\* strconv.ParseFloat(args[1], 64) of the decimal text of a positive amount,
\* given in units of 10^-9 BTC: the float64 nearest to amount / 10^9.
ParseFloat(amount) ==
    LET quotient(s) == DivMod(Bits(amount) \o Zeros(s), UnitsPerBTC, 0)
        widest == Mantissa + Len(Bits(UnitsPerBTC)) - Len(Bits(amount))
        s == IF Len(Strip(quotient(widest).q)) = Mantissa THEN widest
                                                          ELSE widest - 1
        q == Strip(quotient(s).q)
        r == quotient(s).r
        up == 2 * r > UnitsPerBTC \/ (2 * r = UnitsPerBTC /\ q[Len(q)] = 1)
    IN  [m |-> IF up THEN Inc(q) ELSE q, e |-> -s]

\* x * c in float64, for a factor c that is a float64 exactly
\* (100_000_000 < 2^53): the exact product, rounded to the significand.
FloatTimes(x, c) ==
    LET product == Times(x.m, c)
        dropped == IF Len(product) > Mantissa THEN Len(product) - Mantissa ELSE 0
    IN  [m |-> IF dropped > 0 THEN RoundToEven(product, Mantissa) ELSE product,
         e |-> x.e + dropped]

\* int64(x) of a positive float64 below 2^31: the fraction is discarded.
Int64(x) ==
    IF x.e >= 0 THEN ToInt(x.m \o Zeros(x.e))
    ELSE IF Len(x.m) + x.e <= 0 THEN 0
    ELSE ToInt(SubSeq(x.m, 1, Len(x.m) + x.e))

\* The positive amounts of the /sell requests of the runs.
Amounts == {args[1] : args \in {a \in ParsedSellArgs \cup AmountArgs :
                                    a[1] # NaN /\ a[1] > 0}}

\* int64(amountBTC * 100_000_000) of each of them.
Satoshis == [amount \in Amounts |-> Int64(FloatTimes(ParseFloat(amount), SatsPerBTC))]

\* createOffer: amountSats := int64(amountBTC * 100_000_000). The conversion
\* of a NaN to int64 is implementation-dependent in Go: the smallest int64
\* on amd64, 0 on arm64.
AmountSats(amountBTC) ==
    IF amountBTC = NaN THEN {MinInt64, 0} ELSE {Satoshis[amountBTC]}

\* CreateInvoice: the checkoutLink of the invoice that the backend issued as
\* invoiceID; ids and links are numbered from 1, 0 stands for an empty text.
CheckoutLink(invoiceID) == invoiceID

\* CheckInvoiceStatus: status == "Settled" || status == "Complete"
InvoicePaid(st, invoiceID) == invoiceID \in st

----------------------------------------------------------------------------
\* Handler goroutines and responses

\* The locals of a handler: at is the call it is about to make, status the
\* status of the offer that GetOffer returned to it.
Handler(at, sender) ==
    [at |-> at, sender |-> sender, offerID |-> 0, status |-> "", amountBTC |-> 0,
     priceUSD |-> 0, invoiceID |-> 0, invoiceLink |-> 0, todo |-> <<>>, n |-> 0]

\* A response: kind names the outcome, offer the offer id it is about, status
\* the status it carries, confirm/cancel the buttons offered, shown the offers
\* a marketplace listing displays, summary the "first 10 offers" notice, respond
\* the Text of the CallbackResponse passed to Respond ("" without a Respond
\* call), check the CheckInvoiceStatus call of the step (invoice id and reply).
Msg(kind, offerID) ==
    [kind |-> kind, offer |-> offerID, status |-> "",
     confirm |-> FALSE, cancel |-> FALSE, shown |-> {}, summary |-> FALSE,
     respond |-> "", check |-> <<>>]

NoMsg == Msg("none", 0)

\* Offer ids a callback may carry: those of the stored offers, and the next
\* one, which no offer has yet.
OfferIDs == 1..(Len(offers) + 1)

Init ==
    /\ users = [u \in {} |-> 0]
    /\ offers = <<>>
    /\ invoices = <<>>
    /\ settled = {}
    /\ procs = <<>>
    /\ out = NoMsg
    /\ everPaid = {}
    /\ quota = MaxInvoices

\* A command or callback arrives and its handler goroutine starts.
CanStart == Len(procs) < Cardinality(Slots)

\* The new handler returns within its first step.
Return(msg) ==
    /\ procs' = procs
    /\ out' = msg

\* The new handler goes on to a further call.
Spawn(h) ==
    /\ procs' = Append(procs, h)
    /\ out' = NoMsg

\* Handler i goes on to a further call.
Goto(i, h, msg) ==
    /\ procs' = [procs EXCEPT ![i] = h]
    /\ out' = msg

\* Handler i returns.
Finish(i, msg) ==
    /\ procs' = SubSeq(procs, 1, i - 1) \o SubSeq(procs, i + 1, Len(procs))
    /\ out' = msg

At(i, at) == i \in DOMAIN procs /\ procs[i].at = at

----------------------------------------------------------------------------
\* /start

RegisterUserCmd(u) ==
    /\ CanStart
    /\ \E dbOK \in BOOLEAN :
        IF dbOK
        THEN /\ users' = RegisterUser(users, u, Username(u), 0)
             /\ Return(Msg("Registered", 0))
        ELSE /\ users' = users
             /\ Return(Msg("PersistenceError", 0))
    /\ UNCHANGED <<offers, invoices, quota, settled, everPaid>>

----------------------------------------------------------------------------
\* /sell <amount_btc> <price_usd>  and  Bot.createOffer

\* The /sell handler rejects a term that is not strictly positive.
InvalidTerms(amountBTC, priceUSD) == FloatLeq(amountBTC, 0) \/ FloatLeq(priceUSD, 0)

SellCmd(u, amountBTC, priceUSD) ==
    /\ CanStart
    /\ IF InvalidTerms(amountBTC, priceUSD)
       THEN Return(Msg("InvalidTerms", 0))
       ELSE \E dbOK \in BOOLEAN :
              IF ~dbOK \/ ~UserExists(users, u)
              THEN Return(Msg("NotRegistered", 0))
              ELSE Spawn([Handler("create_invoice", u)
                            EXCEPT !.amountBTC = amountBTC,
                                   !.priceUSD = priceUSD])
    /\ UNCHANGED <<users, offers, invoices, quota, settled, everPaid>>

\* Client.CreateInvoice: POST the invoice, then GET it for its checkoutLink.
\* The request fails before anything is issued, or the invoice is issued and
\* the fetch of its link fails, or both exchanges succeed.
\* Mutant: createOffer reports the failed issuance and goes on to the insert.
InvoiceErrorIgnored(i) ==
    Goto(i, [procs[i] EXCEPT !.at = "create_store"], Msg("PaymentBackendError", 0))

\* createOffer on an error of CreateInvoice: report it and return.
InvoiceError(i) == Finish(i, Msg("PaymentBackendError", 0))

CreateInvoice(i) ==
    /\ At(i, "create_invoice")
    /\ \/ /\ invoices' = invoices
          /\ quota' = quota
          /\ InvoiceError(i)
       \/ /\ quota > 0
          /\ quota' = quota - 1
          /\ \E amountSats \in AmountSats(procs[i].amountBTC) :
                invoices' = Append(invoices, [sats |-> amountSats])
          /\ \/ InvoiceError(i)
             \/ Goto(i, [procs[i] EXCEPT !.at = "create_store",
                                         !.invoiceID = Len(invoices) + 1,
                                         !.invoiceLink = CheckoutLink(Len(invoices) + 1)],
                     NoMsg)
    /\ UNCHANGED <<users, offers, settled, everPaid>>

CreateOfferStore(i) ==
    /\ At(i, "create_store")
    /\ \E dbOK \in BOOLEAN :
        IF dbOK
        THEN /\ offers' = CreateOffer(offers, procs[i].sender, procs[i].amountBTC,
                                      procs[i].priceUSD, procs[i].invoiceID,
                                      procs[i].invoiceLink)
             /\ Finish(i, Msg("OfferCreated", Len(offers) + 1))
        ELSE /\ offers' = offers
             /\ Finish(i, Msg("PersistenceError", 0))
    /\ UNCHANGED <<users, invoices, quota, settled, everPaid>>

----------------------------------------------------------------------------
\* The payment backend marks an invoice settled: a buyer paid it. Only the
\* invoice of a stored offer can be paid, since the link of any other invoice
\* was never sent to anyone.
Settle(inv) ==
    /\ inv \in DOMAIN invoices
    /\ \E o \in Rows(offers) : o.invoice_id = inv
    /\ inv \notin settled
    /\ settled' = settled \cup {inv}
    /\ out' = NoMsg
    /\ UNCHANGED <<users, offers, invoices, quota, procs, everPaid>>

----------------------------------------------------------------------------
\* /list  and  Bot.listOffers

\* Offers the loop skips without a message.
ListSkips(o) == o.status = StatusCompleted \/ o.status = StatusCancelled

\* Mutant: the loop asks the backend about paid offers too.
ListChecksPaidToo(o) == o.status = StatusPending \/ o.status = StatusPaid

\* Offers for which the loop asks the backend.
ListChecks(o) == o.status = StatusPending

\* The status the listing writes when the backend reports the invoice paid.
ListWrites == StatusPaid

\* The message for offer o, the k-th of the listing (from 0).
OfferMsg(o, isPaid, k, last, n) ==
    IF k < ListSendLimit
    THEN [Msg("Offer", o.id) EXCEPT !.status = o.status,
                                    !.confirm = isPaid,
                                    !.cancel = (o.status = StatusPending),
                                    !.summary = last /\ n > ListSendLimit]
    ELSE [NoMsg EXCEPT !.summary = last /\ n > ListSendLimit]

\* End of one loop iteration: on to the next offer, or return.
ListNext(i, msg) ==
    IF Len(procs[i].todo) = 1
    THEN Finish(i, msg)
    ELSE Goto(i, [procs[i] EXCEPT !.at = "list_loop",
                                  !.todo = Tail(procs[i].todo)], msg)

ListDisplay(i, o, isPaid, check) ==
    LET n == procs[i].n
        k == n - Len(procs[i].todo)
    IN  ListNext(i, [OfferMsg(o, isPaid, k, Len(procs[i].todo) = 1, n)
                       EXCEPT !.check = check])

\* CheckInvoiceStatus: "error" when the request, the status code or the
\* decoding fails, else whether the invoice status is Settled or Complete.
CheckInvoiceStatus(st, invoiceID, httpOK) ==
    IF ~httpOK THEN "error"
    ELSE IF InvoicePaid(st, invoiceID) THEN "settled" ELSE "unsettled"

\* Mutant: a failed call counts as a payment.
PaidUnlessUnsettled(reply) == reply # "unsettled"

\* paid, the bool that CheckInvoiceStatus returns: false with an error.
Paid(reply) == reply = "settled"

ListOffersCmd(u) ==
    /\ CanStart
    /\ \E dbOK \in BOOLEAN :
        IF ~dbOK
        THEN Return(Msg("PersistenceError", 0))
        ELSE LET os == GetUserOffers(offers, u)
             IN  IF Len(os) = 0
                 THEN Return(Msg("NoOffers", 0))
                 ELSE /\ procs' = Append(procs, [Handler("list_loop", u)
                                                  EXCEPT !.todo = os,
                                                         !.n = Len(os)])
                      /\ out' = Msg("ListHeader", 0)
    /\ UNCHANGED <<users, offers, invoices, quota, settled, everPaid>>

\* One iteration up to (and including) the CheckInvoiceStatus call.
ListLoop(i) ==
    /\ At(i, "list_loop")
    /\ LET o == Head(procs[i].todo)
       IN  IF ListSkips(o)
           THEN ListNext(i, NoMsg)
           ELSE IF ListChecks(o)
           THEN \E httpOK \in BOOLEAN :
                  LET reply == CheckInvoiceStatus(settled, o.invoice_id, httpOK)
                      check == <<o.invoice_id, reply>>
                      paid == Paid(reply)
                  IN  IF paid
                      THEN Goto(i, [procs[i] EXCEPT !.at = "list_update"],
                                [NoMsg EXCEPT !.check = check])
                      ELSE ListDisplay(i, o, FALSE, check)
           ELSE ListDisplay(i, o, o.status = StatusPaid, <<>>)
    /\ UNCHANGED <<users, offers, invoices, quota, settled, everPaid>>

\* The rest of the iteration: UpdateOfferStatus(o.ID, StatusPaid), then the
\* message.
ListUpdate(i) ==
    /\ At(i, "list_update")
    /\ LET o == Head(procs[i].todo)
       IN  \E dbOK \in BOOLEAN :
             IF dbOK
             THEN /\ offers' = UpdateOfferStatus(offers, o.id, ListWrites)
                  /\ everPaid' = IF ListWrites = StatusPaid
                                 THEN everPaid \cup {o.id} ELSE everPaid
                  /\ ListDisplay(i, [o EXCEPT !.status = ListWrites], TRUE, <<>>)
             ELSE /\ offers' = offers
                  /\ everPaid' = everPaid
                  /\ ListDisplay(i, o, TRUE, <<>>)
    /\ UNCHANGED <<users, invoices, quota, settled>>

----------------------------------------------------------------------------
\* Callbacks confirm_payment:<id> and cancel_offer:<id>

\* Mutant: the owner check is missing.
IsOwnerAnyone(o, u) == TRUE

\* offer.UserID != c.Sender.ID is the unauthorized case.
IsOwner(o, u) == o.user_id = u

\* Mutant: the status check of confirmPayment is missing.
ConfirmAllowedAlways(o) == TRUE

\* confirmPayment goes on to write only for an offer it read as paid.
ConfirmAllowed(o) == o.status = StatusPaid

\* Mutant: cancelOffer tests for the wrong status.
CancelAllowedWhenPaid(o) == o.status = StatusPaid

\* cancelOffer goes on to write only for an offer it read as pending.
CancelAllowed(o) == o.status = StatusPending

\* The Text that confirmPayment ("confirm") and cancelOffer ("cancel") pass
\* to Respond for an outcome, for an offer read with the given status; the
\* handlers return GetOffer's error without a Respond call.
RespondText(action, kind, status) ==
    IF action = "confirm"
    THEN CASE kind = "Unauthorized" -> "You are not authorized to confirm this payment"
           [] kind = "InvalidState" -> "This offer is not in the paid status"
           [] kind = "PersistenceError" -> "Failed to update offer status"
           [] kind = "Confirmed" -> "Payment confirmed! Funds have been released."
           [] OTHER -> ""
    ELSE CASE kind = "Unauthorized" -> "You are not authorized to cancel this offer"
           [] kind = "InvalidState" -> "Only pending offers can be cancelled"
           [] kind = "PersistenceError" -> "Failed to cancel offer"
           [] kind = "Cancelled" -> "Offer cancelled successfully."
           [] OTHER -> ""

\* The status check of the callback: confirmPayment's or cancelOffer's.
StatusAllows(action, o) ==
    IF action = "confirm" THEN ConfirmAllowed(o) ELSE CancelAllowed(o)

\* Mutant: the status check comes before the owner check.
CallbackReplyStatusFirst(os, us, u, offerID, action, dbOK) ==
    IF ~dbOK \/ (OfferFound(os, us, offerID) /\ ~Scans(os[offerID]))
    THEN Msg("PersistenceError", 0)
    ELSE IF ~OfferFound(os, us, offerID)
    THEN Msg("NotFound", 0)
    ELSE LET offer == GetOffer(os, us, offerID)
         IN  IF ~StatusAllows(action, offer)
             THEN [Msg("InvalidState", 0)
                     EXCEPT !.respond = RespondText(action, "InvalidState",
                                                    offer.status)]
             ELSE IF ~IsOwner(offer, u)
             THEN [Msg("Unauthorized", 0)
                     EXCEPT !.respond = RespondText(action, "Unauthorized",
                                                    offer.status)]
             ELSE NoMsg

\* Both callbacks up to their status check, on the tables os and us:
\* GetOffer, owner, status. The outcome the requester gets, NoMsg when the
\* handler goes on to its UpdateOfferStatus call.
CallbackReply(os, us, u, offerID, action, dbOK) ==
    IF ~dbOK
    THEN Msg("PersistenceError", 0)
    ELSE IF ~OfferFound(os, us, offerID)
    THEN Msg("NotFound", 0)
    ELSE IF ~Scans(os[offerID])
    THEN Msg("PersistenceError", 0)
    ELSE LET offer == GetOffer(os, us, offerID)
         IN  IF ~IsOwner(offer, u)
             THEN [Msg("Unauthorized", 0)
                     EXCEPT !.respond = RespondText(action, "Unauthorized",
                                                    offer.status)]
             ELSE IF ~StatusAllows(action, offer)
             THEN [Msg("InvalidState", 0)
                     EXCEPT !.respond = RespondText(action, "InvalidState",
                                                    offer.status)]
             ELSE NoMsg

CallbackGet(u, offerID, next, action) ==
    /\ CanStart
    /\ \E dbOK \in BOOLEAN :
        LET reply == CallbackReply(offers, users, u, offerID, action, dbOK)
        IN  IF reply # NoMsg
            THEN Return(reply)
            ELSE Spawn([Handler(next, u)
                          EXCEPT !.offerID = offerID,
                                 !.status = GetOffer(offers, users, offerID).status])
    /\ UNCHANGED <<users, offers, invoices, quota, settled, everPaid>>

\* Both callbacks from their UpdateOfferStatus call on.
CallbackUpdate(i, at, status, done, action) ==
    /\ At(i, at)
    /\ \E dbOK \in BOOLEAN :
        IF dbOK
        THEN /\ offers' = UpdateOfferStatus(offers, procs[i].offerID, status)
             /\ everPaid' = IF status = StatusPaid
                            THEN everPaid \cup {procs[i].offerID} ELSE everPaid
             /\ Finish(i, [Msg(done, procs[i].offerID)
                             EXCEPT !.status = status,
                                    !.respond = RespondText(action, done,
                                                            procs[i].status)])
        ELSE /\ offers' = offers
             /\ everPaid' = everPaid
             /\ Finish(i, [Msg("PersistenceError", 0)
                             EXCEPT !.respond = RespondText(action, "PersistenceError",
                                                            procs[i].status)])
    /\ UNCHANGED <<users, invoices, quota, settled>>

\* The status confirmPayment writes.
ConfirmWrites == StatusCompleted

\* Mutant: cancelOffer writes paid.
CancelWritesPaid == StatusPaid

\* The status cancelOffer writes.
CancelWrites == StatusCancelled

ConfirmPaymentCmd(u, offerID) ==
    CallbackGet(u, offerID, "confirm_update", "confirm")

ConfirmUpdate(i) ==
    CallbackUpdate(i, "confirm_update", ConfirmWrites, "Confirmed", "confirm")

CancelOfferCmd(u, offerID) ==
    CallbackGet(u, offerID, "cancel_update", "cancel")

CancelUpdate(i) ==
    CallbackUpdate(i, "cancel_update", CancelWrites, "Cancelled", "cancel")

----------------------------------------------------------------------------
\* /marketplace  and  Bot.showMarketplace

\* Mutant: the marketplace also keeps paid offers.
MarketplaceIncludesPaid(o) == o.status = StatusPending \/ o.status = StatusPaid

\* "Only include pending offers in the marketplace"
MarketplaceIncludes(o) == o.status = StatusPending

SeqRange(s) == {s[i] : i \in DOMAIN s}

ShowMarketplaceCmd ==
    /\ CanStart
    /\ \E dbOK \in BOOLEAN :
        IF ~dbOK
        THEN Return(Msg("PersistenceError", 0))
        ELSE LET os == GetAllOffers(offers, users, MarketplaceLimit)
                 sellerOffers == {o \in SeqRange(os) : MarketplaceIncludes(o)}
             IN  IF Len(os) = 0
                 THEN Return(Msg("NoOffers", 0))
                 ELSE IF sellerOffers = {}
                 THEN Return(Msg("NoActiveOffers", 0))
                 ELSE Return([Msg("Marketplace", 0)
                                EXCEPT !.shown = {o.id : o \in sellerOffers}])
    /\ UNCHANGED <<users, offers, invoices, quota, settled, everPaid>>

----------------------------------------------------------------------------

Next ==
    \/ \E u \in UserIDs : RegisterUserCmd(u)
    \/ \E u \in UserIDs, args \in SellArgs : SellCmd(u, args[1], args[2])
    \/ \E i \in Slots : CreateInvoice(i)
    \/ \E i \in Slots : CreateOfferStore(i)
    \/ \E inv \in 1..MaxInvoices : Settle(inv)
    \/ \E u \in UserIDs : ListOffersCmd(u)
    \/ \E i \in Slots : ListLoop(i)
    \/ \E i \in Slots : ListUpdate(i)
    \/ \E u \in UserIDs, id \in OfferIDs : ConfirmPaymentCmd(u, id)
    \/ \E i \in Slots : ConfirmUpdate(i)
    \/ \E u \in UserIDs, id \in OfferIDs : CancelOfferCmd(u, id)
    \/ \E i \in Slots : CancelUpdate(i)
    \/ ShowMarketplaceCmd

Spec == Init /\ [][Next]_vars

----------------------------------------------------------------------------
\* Runs in which users register and create offers, concurrently, with every
\* kind of /sell argument; no listing, callback or payment takes place.

InitCreate ==
    /\ users = [u \in {} |-> 0]
    /\ offers = <<>>
    /\ invoices = <<>>
    /\ settled = {}
    /\ procs = <<>>
    /\ out = NoMsg
    /\ everPaid = {}
    /\ quota = MaxCreated

NextCreate ==
    \/ \E u \in UserIDs : RegisterUserCmd(u)
    \/ \E u \in UserIDs, args \in ParsedSellArgs : SellCmd(u, args[1], args[2])
    \/ \E i \in Slots : CreateInvoice(i)
    \/ \E i \in Slots : CreateOfferStore(i)

SpecCreate == InitCreate /\ [][NextCreate]_vars

----------------------------------------------------------------------------
\* Runs about the amount of the invoice: user 1 has registered, and /sell
\* requests arrive with amounts of a satoshi, of less and of more.

InitAmount ==
    /\ users = RegisterUser([u \in {} |-> 0], 1, Username(1), 0)
    /\ offers = <<>>
    /\ invoices = <<>>
    /\ settled = {}
    /\ procs = <<>>
    /\ out = NoMsg
    /\ everPaid = {}
    /\ quota = MaxPriced

NextAmount ==
    \/ \E u \in UserIDs, args \in AmountArgs : SellCmd(u, args[1], args[2])
    \/ \E i \in Slots : CreateInvoice(i)
    \/ \E i \in Slots : CreateOfferStore(i)

SpecAmount == InitAmount /\ [][NextAmount]_vars

----------------------------------------------------------------------------
\* Runs that start when user 1 has registered and created two offers, both
\* pending and unpaid: listings, callbacks and payments, no further offer.

InitList ==
    /\ users = RegisterUser([u \in {} |-> 0], 1, Username(1), 0)
    /\ offers = CreateOffer(CreateOffer(<<>>, 1, 10, 1, 1, CheckoutLink(1)),
                            1, 10, 1, 2, CheckoutLink(2))
    /\ invoices = <<[sats |-> 1], [sats |-> 1]>>
    /\ settled = {}
    /\ procs = <<>>
    /\ out = NoMsg
    /\ everPaid = {}
    /\ quota = 0

NextList ==
    \/ \E inv \in DOMAIN invoices : Settle(inv)
    \/ \E u \in UserIDs : ListOffersCmd(u)
    \/ \E i \in Slots : ListLoop(i)
    \/ \E i \in Slots : ListUpdate(i)
    \/ \E u \in UserIDs, id \in OfferIDs : ConfirmPaymentCmd(u, id)
    \/ \E i \in Slots : ConfirmUpdate(i)
    \/ \E u \in UserIDs, id \in OfferIDs : CancelOfferCmd(u, id)
    \/ \E i \in Slots : CancelUpdate(i)

SpecList == InitList /\ [][NextList]_vars

----------------------------------------------------------------------------
\* Marketplace views of a table of up to MaxOffers offers, all created by
\* user 1: the oldest and the newest offer have any status, the others are
\* pending; one offer, the oldest or the newest, may have been created by
\* "/sell 10 NaN".

\* The offers table after n createOffer calls of user 1, the nan-th with the
\* price NaN.
RECURSIVE Created(_, _)
Created(n, nan) ==
    IF n = 0 THEN <<>>
    ELSE CreateOffer(Created(n - 1, nan), 1, 10, IF n = nan THEN NaN ELSE 1,
                     n, CheckoutLink(n))

InitMarket ==
    /\ users = RegisterUser([u \in {} |-> 0], 1, Username(1), 0)
    /\ \E n \in 0..MaxOffers, oldest \in Statuses, newest \in Statuses :
         \E nan \in {0, 1, n} :
            offers = UpdateOfferStatus(UpdateOfferStatus(Created(n, nan), 1, oldest),
                                       n, newest)
    /\ invoices = [i \in DOMAIN offers |-> [sats |-> 1]]
    /\ settled = {id \in DOMAIN offers :
                     offers[id].status \in {StatusPaid, StatusCompleted}}
    /\ procs = <<>>
    /\ out = NoMsg
    /\ everPaid = settled
    /\ quota = 0

NextMarket == ShowMarketplaceCmd

SpecMarket == InitMarket /\ [][NextMarket]_vars

----------------------------------------------------------------------------
\* Runs of the reconciliation: user 1 has registered and created two offers,
\* both pending and unpaid, offer 2 by "/sell 10 NaN". The steps are those of
\* the listing runs.

InitReconcile ==
    /\ users = RegisterUser([u \in {} |-> 0], 1, Username(1), 0)
    /\ offers = CreateOffer(CreateOffer(<<>>, 1, 10, 1, 1, CheckoutLink(1)),
                            1, 10, NaN, 2, CheckoutLink(2))
    /\ invoices = <<[sats |-> 1], [sats |-> 1]>>
    /\ settled = {}
    /\ procs = <<>>
    /\ out = NoMsg
    /\ everPaid = {}
    /\ quota = 0

\* Handler i asks the backend about the invoice of offer id and gets an
\* answer.
CheckAnswered(i, id) ==
    /\ At(i, "list_loop")
    /\ Head(procs[i].todo).id = id
    /\ ListLoop(i)
    /\ out'.check # <<>>
    /\ out'.check[2] # "error"

\* Handler i writes paid for offer id and the Store executes the update.
PaidStored(i, id) ==
    /\ At(i, "list_update")
    /\ Head(procs[i].todo).id = id
    /\ ListUpdate(i)
    /\ out'.status = StatusPaid

\* The owner's listing starts and the Store returns the owner's offers.
Listed(u) == ListOffersCmd(u) /\ out'.kind # "PersistenceError"

\* Every goroutine that serves a request runs on to its return; every owner
\* keeps requesting the own-offers listing; and, for every offer, the
\* backend and the Store do not fail forever on the calls made for it.
Fairness ==
    /\ \A i \in Slots :
          /\ WF_vars(ListLoop(i))
          /\ WF_vars(ListUpdate(i))
          /\ WF_vars(ConfirmUpdate(i))
          /\ WF_vars(CancelUpdate(i))
    /\ \A u \in UserIDs : SF_vars(Listed(u))
    /\ \A i \in Slots, id \in 1..2 :
          /\ SF_vars(CheckAnswered(i, id))
          /\ SF_vars(PaidStored(i, id))

SpecReconcile == InitReconcile /\ [][NextList]_vars /\ Fairness

----------------------------------------------------------------------------
\* Runs that call the methods of db.Database directly, one statement per
\* step, with any arguments; the statements execute (no I/O failure).

\* The outcome of a direct call of a Store method: kind is "Ok" or the error,
\* call the method and its arguments, rows the rows it returned.
Returned(kind, call, rows) == [kind |-> kind, call |-> call, rows |-> rows]

InitStore ==
    /\ users = [u \in {} |-> 0]
    /\ offers = <<>>
    /\ invoices = <<>>
    /\ settled = {}
    /\ procs = <<>>
    /\ out = Returned("", <<>>, <<>>)
    /\ everPaid = {}
    /\ quota = 0

CallRegisterUser(userID, username, now) ==
    /\ users' = RegisterUser(users, userID, username, now)
    /\ out' = Returned("Ok", <<"RegisterUser", userID, username, now>>, <<>>)
    /\ UNCHANGED <<offers, invoices, quota, settled, procs, everPaid>>

\* FOREIGN KEY(user_id) is enforced only when the connection string turns
\* foreign keys on; the default DB_PATH does not.
CallCreateOffer(userID, priceUSD) ==
    /\ Len(offers) < MaxRows
    /\ \E foreignKeys \in BOOLEAN :
          IF foreignKeys /\ ~UserExists(users, userID)
          THEN /\ offers' = offers
               /\ out' = Returned("PersistenceError",
                                  <<"CreateOffer", userID, priceUSD>>, <<>>)
          ELSE /\ offers' = CreateOffer(offers, userID, 10, priceUSD, Len(offers) + 1,
                                        CheckoutLink(Len(offers) + 1))
               /\ out' = Returned("Ok", <<"CreateOffer", userID, priceUSD>>, <<>>)
    /\ UNCHANGED <<users, invoices, quota, settled, procs, everPaid>>

\* Exec returns no error when the UPDATE matches no row.
CallUpdateOfferStatus(offerID, status) ==
    /\ offers' = UpdateOfferStatus(offers, offerID, status)
    /\ out' = Returned("Ok", <<"UpdateOfferStatus", offerID, status>>, <<>>)
    /\ UNCHANGED <<users, invoices, quota, settled, procs, everPaid>>

CallGetOffer(offerID) ==
    /\ out' = IF ~OfferFound(offers, users, offerID)
              THEN Returned("NotFound", <<"GetOffer", offerID>>, <<>>)
              ELSE IF ~Scans(offers[offerID])
              THEN Returned("PersistenceError", <<"GetOffer", offerID>>, <<>>)
              ELSE Returned("Ok", <<"GetOffer", offerID>>,
                            <<GetOffer(offers, users, offerID)>>)
    /\ UNCHANGED <<users, offers, invoices, quota, settled, procs, everPaid>>

CallGetUserOffers(userID) ==
    /\ out' = Returned("Ok", <<"GetUserOffers", userID>>,
                       GetUserOffers(offers, userID))
    /\ UNCHANGED <<users, offers, invoices, quota, settled, procs, everPaid>>

CallGetAllOffers(limit) ==
    /\ out' = Returned("Ok", <<"GetAllOffers", limit>>,
                       GetAllOffers(offers, users, limit))
    /\ UNCHANGED <<users, offers, invoices, quota, settled, procs, everPaid>>

NextStore ==
    \/ \E u \in UserIDs, r \in Registrations : CallRegisterUser(u, r[1], r[2])
    \/ \E u \in UserIDs, p \in StorePrices : CallCreateOffer(u, p)
    \/ \E id \in OfferIDs, st \in {StatusPaid, StatusCancelled} :
          CallUpdateOfferStatus(id, st)
    \/ \E id \in OfferIDs : CallGetOffer(id)
    \/ \E u \in UserIDs : CallGetUserOffers(u)
    \/ \E l \in Limits : CallGetAllOffers(l)

SpecStore == InitStore /\ [][NextStore]_vars

----------------------------------------------------------------------------
\* Properties

Owner(id) == offers[id].user_id

Stored(id) == offers[id].status

\* C1: every stored status is one of the four statuses, and every change of
\* an offer's stored status is pending->paid, paid->completed or
\* pending->cancelled.
C1_OnlyLegalEdges ==
    [][\A id \in DOMAIN offers :
         /\ Stored(id) \in Statuses
         /\ offers'[id].status # Stored(id) =>
              <<Stored(id), offers'[id].status>> \in
                 {<<StatusPending, StatusPaid>>,
                  <<StatusPaid, StatusCompleted>>,
                  <<StatusPending, StatusCancelled>>}]_vars

\* C2: once an offer's stored status is completed or cancelled, no step
\* changes it.
C2_TerminalAbsorbing ==
    [][\A id \in DOMAIN offers :
         Stored(id) \in {StatusCompleted, StatusCancelled} =>
            offers'[id].status = Stored(id)]_vars

C4_WriteOnlyOverStatusRead ==
    [][\A i \in DOMAIN procs :
         /\ (ListUpdate(i) /\ out'.kind = "Offer" /\ out'.status = StatusPaid) =>
               Stored(Head(procs[i].todo).id) = Head(procs[i].todo).status
         /\ (ConfirmUpdate(i) /\ out'.kind = "Confirmed") =>
               Stored(procs[i].offerID) = procs[i].status
         /\ (CancelUpdate(i) /\ out'.kind = "Cancelled") =>
               Stored(procs[i].offerID) = procs[i].status]_vars

\* u is not the owner of the stored offer id.
NonOwner(u, id) == id \in DOMAIN offers /\ Owner(id) # u

\* What every step that serves a confirm or cancel callback looks like (it
\* sorts out the other steps before the handlers are evaluated on a step).
ServesCallback ==
    \/ /\ procs' = procs
       /\ out'.kind \in {"PersistenceError", "NotFound", "Unauthorized", "InvalidState"}
    \/ /\ Len(procs') = Len(procs) + 1
       /\ procs'[Len(procs')].at \in {"confirm_update", "cancel_update"}

\* The step serves a confirm callback of u for offer id.
ConfirmStep(u, id) == ServesCallback /\ ConfirmPaymentCmd(u, id)

\* The step serves a cancel callback of u for offer id.
CancelStep(u, id) == ServesCallback /\ CancelOfferCmd(u, id)

\* The step serves a confirm or cancel callback of u for offer id.
CallbackStep(u, id) == ConfirmStep(u, id) \/ CancelStep(u, id)

\* C5 as stated: confirmPayment or cancelOffer by a non-owner always fails
\* with Unauthorized and changes nothing.
C5_AlwaysUnauthorized ==
    [][\A u \in UserIDs, id \in OfferIDs :
         NonOwner(u, id) =>
            \/ out'.kind = "Unauthorized" /\ offers' = offers /\ users' = users
            \/ ~CallbackStep(u, id)]_vars

\* C5 amended: confirmPayment or cancelOffer by a non-owner returns at once,
\* with Unauthorized when the Store returned the offer and with the Store's
\* failure otherwise, changing no stored state; and every step that makes an
\* offer completed or cancelled is the write of a confirmPayment or
\* cancelOffer requested by the offer's owner.
C5_NonOwnerRejected ==
    [][/\ ServesCallback =>
            \/ /\ out'.kind \in {"Unauthorized", "PersistenceError"}
               /\ procs' = procs
               /\ offers' = offers
               /\ users' = users
               /\ invoices' = invoices
            \/ \A id \in DOMAIN offers : \A u \in UserIDs \ {Owner(id)} :
                  ~(ConfirmPaymentCmd(u, id) \/ CancelOfferCmd(u, id))
       /\ \A id \in DOMAIN offers :
            (offers'[id].status \in {StatusCompleted, StatusCancelled}
               /\ offers'[id].status # Stored(id)) =>
                  \E i \in DOMAIN procs :
                     /\ ConfirmUpdate(i) \/ CancelUpdate(i)
                     /\ procs[i].offerID = id
                     /\ procs[i].sender = Owner(id)]_vars

C5_Witness ==
    /\ out.kind = "Unauthorized"
    /\ \E id \in DOMAIN offers : Stored(id) = StatusPaid

\* u owns the stored offer id, whose stored status is pending.
OwnsPending(u, id) ==
    id \in DOMAIN offers /\ Owner(id) = u /\ Stored(id) = StatusPending

\* The step started a handler that goes on to the call at for offer id.
Started(at, id) ==
    /\ Len(procs') = Len(procs) + 1
    /\ procs'[Len(procs')].at = at
    /\ procs'[Len(procs')].offerID = id

\* Handler i of the state before the step is gone and reported kind for offer id.
Reported(i, kind, id) ==
    /\ out'.kind = kind
    /\ out'.offer = id
    /\ Len(procs') = Len(procs) - 1

\* C6 as stated: cancelOffer by the owner on a pending offer always succeeds
\* and leaves the offer cancelled.
C6_AlwaysCancelled ==
    [][/\ \A u \in UserIDs, id \in OfferIDs :
            OwnsPending(u, id) =>
               \/ Started("cancel_update", id)
               \/ ~CancelStep(u, id)
       /\ \A i \in DOMAIN procs :
            CancelUpdate(i) =>
               /\ Reported(i, "Cancelled", procs[i].offerID)
               /\ offers'[procs[i].offerID].status = StatusCancelled]_vars

\* C6 amended: cancelOffer by the owner on an offer read as pending succeeds
\* and leaves the offer cancelled whenever its Store read and its Store write
\* succeed; when one of them fails it reports the failure and the stored
\* offers are unchanged.
C6_CancelledUnlessStoreFails ==
    [][/\ ServesCallback =>
            \A u \in UserIDs, id \in OfferIDs :
               OwnsPending(u, id) =>
                  \/ Started("cancel_update", id) /\ offers' = offers
                  \/ out'.kind = "PersistenceError" /\ procs' = procs /\ offers' = offers
                  \/ ~CancelStep(u, id)
       /\ \A i \in DOMAIN procs :
            CancelUpdate(i) =>
               \/ /\ Reported(i, "Cancelled", procs[i].offerID)
                  /\ offers'[procs[i].offerID].status = StatusCancelled
               \/ /\ Reported(i, "PersistenceError", 0)
                  /\ offers' = offers]_vars

C6_Witness ==
    /\ out.kind = "Cancelled"
    /\ Stored(out.offer) = StatusCancelled

\* C7: confirmPayment by the owner is rejected with InvalidState and changes
\* nothing while the offer has never been moved to paid; once a listing has
\* moved it to paid, the owner's confirmPayment is not rejected (before the
\* offer is completed).
C7_ConfirmOnceRefreshed ==
    [][\A u \in UserIDs, id \in OfferIDs :
         (id \in DOMAIN offers /\ Owner(id) = u) =>
            \/ IF id \notin everPaid
               THEN /\ out'.kind \in {"InvalidState", "PersistenceError"}
                    /\ procs' = procs
                    /\ offers' = offers
               ELSE Stored(id) # StatusCompleted => out'.kind # "InvalidState"
            \/ ~ConfirmStep(u, id)]_vars

\* C8: cancelOffer by the owner on an offer that is not pending is rejected
\* with InvalidState (or a Store failure) without a change, and no step turns
\* the stored status of an offer that is no longer pending into cancelled.
C8_NoCancelAfterPaid ==
    [][/\ \A u \in UserIDs, id \in OfferIDs :
            (id \in DOMAIN offers /\ Owner(id) = u /\ Stored(id) # StatusPending) =>
               \/ out'.kind \in {"InvalidState", "PersistenceError"} /\ offers' = offers
               \/ ~CancelStep(u, id)
       /\ \A id \in DOMAIN offers :
            (offers'[id].status = StatusCancelled /\ Stored(id) # StatusCancelled) =>
               Stored(id) = StatusPending]_vars

\* C9: the offers a marketplace listing displays are stored offers whose
\* status, in the Store state the listing read, is pending.
C9_MarketplaceOnlyPending ==
    out.kind = "Marketplace" =>
       \A id \in out.shown : id \in DOMAIN offers /\ Stored(id) = StatusPending

C9_Witness ==
    /\ out.kind = "Marketplace"
    /\ out.shown # {}

\* C10: no offer whose invoice the backend reports settled at listing time
\* is displayed by the marketplace listing.
C10_NoSettledInMarketplace ==
    out.kind = "Marketplace" =>
       \A id \in out.shown : ~InvoicePaid(settled, offers[id].invoice_id)

----------------------------------------------------------------------------
\* Properties of offer creation, checked on SpecCreate

\* The step serves /sell <amountBTC> <priceUSD> sent by u.
SellStep(u, amountBTC, priceUSD) ==
    /\ users' = users
    /\ offers' = offers
    /\ invoices' = invoices
    /\ SellCmd(u, amountBTC, priceUSD)

\* The /sell request was turned down with kind and nothing was started.
TurnedDown(kind) ==
    /\ out'.kind = kind
    /\ procs' = procs
    /\ offers' = offers
    /\ invoices' = invoices

\* C11: a create request whose amount or price is not strictly positive is
\* answered InvalidTerms, persists no offer and starts no call to the payment
\* backend.
C11_InvalidTermsRejected ==
    [][\A u \in UserIDs, args \in ParsedSellArgs :
         (~FloatGt(args[1], 0) \/ ~FloatGt(args[2], 0)) =>
            \/ TurnedDown("InvalidTerms")
            \/ ~SellStep(u, args[1], args[2])]_vars

\* The handlers that are inside Bot.createOffer, past the registration check.
Creating == {i \in DOMAIN procs : procs[i].at \in {"create_invoice", "create_store"}}

\* C12: createOffer requested by a user who is not registered is answered
\* NotRegistered and starts nothing; no handler that goes on to issue an
\* invoice or to persist an offer, and no persisted offer, is of a user who
\* has not registered.
C12_UnregisteredRejected ==
    [][/\ \A u \in UserIDs, args \in ParsedSellArgs :
            (u \notin DOMAIN users /\ ~InvalidTerms(args[1], args[2])) =>
               \/ TurnedDown("NotRegistered")
               \/ ~SellStep(u, args[1], args[2])
       /\ \A i \in Creating : procs[i].sender \in DOMAIN users
       /\ \A id \in DOMAIN offers : Owner(id) \in DOMAIN users]_vars

C12_Witness ==
    /\ out.kind = "NotRegistered"
    /\ DOMAIN users # {}
    /\ \E u \in UserIDs : u \notin DOMAIN users

\* C13: when the invoice issuance fails, createOffer reports
\* PaymentBackendError and returns without persisting anything: the offers
\* that a listing of the requester's offers returns are those of before.
C13_BackendFailurePersistsNothing ==
    [][\A i \in DOMAIN procs :
         (out'.kind = "PaymentBackendError" /\ CreateInvoice(i)) =>
            /\ offers' = offers
            /\ Len(procs') = Len(procs) - 1
            /\ GetUserOffers(offers', procs[i].sender) =
                  GetUserOffers(offers, procs[i].sender)]_vars

C13_Witness ==
    /\ out.kind = "PaymentBackendError"
    /\ offers # <<>>

C15_NoOrphanInvoice ==
    \A k \in DOMAIN invoices :
       \/ \E id \in DOMAIN offers : offers[id].invoice_id = k
       \/ \E i \in DOMAIN procs :
             procs[i].at = "create_store" /\ procs[i].invoiceID = k

\* C16: for a registered owner and amount > 0, price > 0, when the issuance
\* and the insert succeed, GetOffer of the new offer right after createOffer
\* returns status pending, the requester as owner, and the amount and price
\* that were passed in.
C16_CreateThenGetRoundTrip ==
    [][\A i \in DOMAIN procs :
         (/\ out'.kind = "OfferCreated"
          /\ FloatGt(procs[i].amountBTC, 0)
          /\ FloatGt(procs[i].priceUSD, 0)
          /\ CreateOfferStore(i)) =>
            /\ OfferFound(offers', users', out'.offer)
            /\ GetOffer(offers', users', out'.offer).status = StatusPending
            /\ GetOffer(offers', users', out'.offer).user_id = procs[i].sender
            /\ GetOffer(offers', users', out'.offer).amount_btc = procs[i].amountBTC
            /\ GetOffer(offers', users', out'.offer).price_usd = procs[i].priceUSD]_vars

C16_Witness ==
    /\ out.kind = "OfferCreated"
    /\ GetOffer(offers, users, out.offer).amount_btc = 10
    /\ GetOffer(offers, users, out.offer).price_usd = 1

\* The handlers that hold an issued invoice and are about to insert its offer.
Inserting == {i \in DOMAIN procs : procs[i].at = "create_store"}

\* C17: every created offer has an invoice issuance of its own: no two
\* persisted offers, and no offer and no createOffer that is about to
\* insert, carry the same invoice identifier, and there are never more
\* offers than issued invoices.
C17_OneInvoicePerOffer ==
    /\ \A a, b \in DOMAIN offers :
          a # b => offers[a].invoice_id # offers[b].invoice_id
    /\ \A i, j \in Inserting : i # j => procs[i].invoiceID # procs[j].invoiceID
    /\ \A i \in Inserting, a \in DOMAIN offers :
          offers[a].invoice_id # procs[i].invoiceID
    /\ Len(offers) + Cardinality(Inserting) <= Len(invoices)

C17_Witness ==
    /\ Len(offers) = 2
    /\ offers[1].user_id # offers[2].user_id
    /\ out.kind = "OfferCreated"

\* C18: offer ids are unique and increase in the order of the inserts: a
\* row keeps its id, and a new row gets an id above every id in the table.
C18_IdsIncrease ==
    [][/\ \A a, b \in DOMAIN offers : a < b => offers[a].id < offers[b].id
       /\ \A a \in DOMAIN offers :
             a \in DOMAIN offers' /\ offers'[a].id = offers[a].id
       /\ \A b \in DOMAIN offers' \ DOMAIN offers :
             \A a \in DOMAIN offers : offers'[b].id > offers[a].id]_vars

C18_Witness ==
    /\ Len(offers) = 2
    /\ offers[1].id < offers[2].id
    /\ Inserting = {}

----------------------------------------------------------------------------
\* Properties of the Store's rows, checked on Spec

\* The step is the status write of a handler whose target is offer id.
StatusWriteOf(id) ==
    \E i \in DOMAIN procs :
       \/ At(i, "list_update") /\ Head(procs[i].todo).id = id /\ ListUpdate(i)
       \/ procs[i].offerID = id /\ (ConfirmUpdate(i) \/ CancelUpdate(i))

Readable(os, us, id) ==
    /\ OfferFound(os, us, id)
    /\ Scans(os[id])
    /\ GetOffer(os, us, id).id = id
    /\ os[id] \in SeqRange(GetUserOffers(os, os[id].user_id))
    /\ \E o \in SeqRange(GetAllOffers(os, us, 0)) : o.id = id /\ o.status = os[id].status

\* C20: no step removes an offer: every stored id is still stored, with its
\* row, after the step, and every step that changes the offers or the users
\* leaves each completed or cancelled offer readable through GetOffer and
\* the Store listings.
C20_NoOfferRemoved ==
    [][(offers' # offers \/ users' # users) =>
         /\ \A id \in DOMAIN offers : id \in DOMAIN offers' /\ offers'[id].id = id
         /\ \A id \in DOMAIN offers' :
               offers'[id].status \in {StatusCompleted, StatusCancelled} =>
                  Readable(offers', users', id)]_vars

C20_Witness ==
    /\ out.kind = "Cancelled"
    /\ Stored(out.offer) = StatusCancelled
    /\ Readable(offers, users, out.offer)

----------------------------------------------------------------------------
\* Direct calls of the Store

\* The outcome o is that of a direct call of the Store method name.
Calls(o, name) == Len(o.call) > 0 /\ o.call[1] = name

\* C21: a RegisterUser call for a user_id that has a row returns no error and
\* leaves the users table (the row's username and created_at included) and
\* the offers as they were; and registering twice, whatever the second
\* handle and time, gives the table that registering once gives.
C21_RegisterIdempotent ==
    [][Calls(out', "RegisterUser") =>
         /\ out'.call[2] \in DOMAIN users =>
               out'.kind = "Ok" /\ users' = users /\ offers' = offers
         /\ \A r \in Registrations :
               RegisterUser(users', out'.call[2], r[1], r[2]) = users']_vars

C21_Witness ==
    /\ Calls(out, "RegisterUser")
    /\ out.kind = "Ok"
    /\ users[out.call[2]].username # out.call[3]
    /\ users[out.call[2]].created_at # out.call[4]
    /\ offers # <<>>

\* C22: an UpdateOfferStatus call for an id that no offer has fails with
\* NotFound and leaves the offers and the users as they were.
C22_UpdateAbsentNotFound ==
    [][(Calls(out', "UpdateOfferStatus") /\ out'.call[2] \notin DOMAIN offers) =>
         (out'.kind = "NotFound" /\ offers' = offers /\ users' = users)]_vars

\* C23: a GetOffer call for the id of a stored offer returns that offer, with
\* its stored status and the username of its owner's user row, and a call for
\* any other id fails with NotFound.
C23_GetOfferExactlyPersisted ==
    Calls(out, "GetOffer") =>
        IF out.call[2] \in DOMAIN offers
        THEN /\ out.kind = "Ok"
             /\ Len(out.rows) = 1
             /\ out.rows[1].id = out.call[2]
             /\ out.rows[1].status = Stored(out.call[2])
             /\ out.rows[1].username = users[Owner(out.call[2])].username
        ELSE out.kind = "NotFound"

\* C24: a CreateOffer call whose user_id has no user row fails with
\* PersistenceError and inserts nothing, and after every CreateOffer call
\* each stored offer has an owner with a user row.
C24_CreateOfferNeedsOwner ==
    [][Calls(out', "CreateOffer") =>
         /\ out'.call[2] \notin DOMAIN users =>
               out'.kind = "PersistenceError" /\ offers' = offers
         /\ \A id \in DOMAIN offers' : offers'[id].user_id \in DOMAIN users']_vars

\* C25: a GetUserOffers call returns every stored offer of that owner and no
\* other row, each once, with its stored status, a later created_at before
\* an earlier one.
C25_ListByOwnerExact ==
    Calls(out, "GetUserOffers") =>
        /\ {out.rows[i] : i \in DOMAIN out.rows}
              = {o \in Rows(offers) : o.user_id = out.call[2]}
        /\ \A i, j \in DOMAIN out.rows :
              i < j => out.rows[i].created_at > out.rows[j].created_at

\* C26: a GetAllOffers call returns every stored offer when limit <= 0 and
\* as many as the smaller of limit and the number stored when limit > 0:
\* the latest created ones, a later created_at before an earlier one, each
\* with its stored status and the username of its owner's user row.
C26_ListAllNewestWithinLimit ==
    Calls(out, "GetAllOffers") =>
        LET limit == out.call[2]
            total == Len(offers)
            n == IF limit <= 0 \/ total <= limit THEN total ELSE limit
        IN  /\ Len(out.rows) = n
            /\ \A i, j \in DOMAIN out.rows :
                  i < j => out.rows[i].created_at > out.rows[j].created_at
            /\ \A i \in DOMAIN out.rows :
                  /\ out.rows[i].id \in DOMAIN offers
                  /\ out.rows[i].status = Stored(out.rows[i].id)
                  /\ out.rows[i].username = users[Owner(out.rows[i].id)].username
            /\ \A o \in Rows(offers) :
                  (\A i \in DOMAIN out.rows : out.rows[i].id # o.id) =>
                     \A i \in DOMAIN out.rows : out.rows[i].created_at > o.created_at

----------------------------------------------------------------------------
\* The refresh of the owner's listing

\* Handler i goes on with the offers after the first of its todo, or returns
\* when there is none.
MovesOn(i) ==
    IF Len(procs[i].todo) > 1
    THEN procs' = [procs EXCEPT ![i].todo = Tail(procs[i].todo)]
    ELSE procs' = SubSeq(procs, 1, i - 1) \o SubSeq(procs, i + 1, Len(procs))

\* C27: a listing asks the backend only about an offer it read as pending,
\* about that offer's invoice, and changes no offer in that step; it goes on
\* to its status write exactly when the reply is settled; and that write is
\* for an offer read as pending and stores paid for it, or fails and stores
\* nothing. For an offer read with another status the step asks nothing,
\* writes nothing and moves on.
C27_RefreshOnlyPendingToPaid ==
    [][\A i \in DOMAIN procs :
         /\ ListLoop(i) =>
               LET o == Head(procs[i].todo)
               IN  /\ offers' = offers
                   /\ out'.check # <<>> =>
                         o.status = StatusPending /\ out'.check[1] = o.invoice_id
                   /\ (procs' = [procs EXCEPT ![i].at = "list_update"])
                         <=> (out'.check # <<>> /\ out'.check[2] = "settled")
                   /\ o.status # StatusPending => out'.check = <<>> /\ MovesOn(i)
         /\ ListUpdate(i) =>
               LET o == Head(procs[i].todo)
               IN  /\ o.status = StatusPending
                   /\ o.invoice_id \in settled
                   /\ \/ offers' = offers
                      \/ offers' = [offers EXCEPT ![o.id].status = StatusPaid]]_vars

C27_Witness ==
    /\ out.kind = "Offer"
    /\ out.offer = 2
    /\ out.status = StatusPaid
    /\ Stored(1) = StatusCancelled
    /\ Stored(2) = StatusPaid
    /\ settled = {2}

\* C28: when the CheckInvoiceStatus call of a listing step fails, the step
\* changes no offer, schedules no status write, shows the offer as pending
\* without a Confirm button, and the listing goes on with its remaining
\* offers (or returns when there is none).
C28_CheckFailureIsSoft ==
    [][(out'.check # <<>> /\ out'.check[2] = "error") =>
         \A i \in DOMAIN procs :
            ListLoop(i) =>
               /\ offers' = offers
               /\ out'.kind = "Offer"
               /\ out'.offer = Head(procs[i].todo).id
               /\ out'.status = StatusPending
               /\ ~out'.confirm
               /\ MovesOn(i)]_vars

\* The check of offer 2, the first of the listing, failed; the listing still
\* has offer 1 to refresh.
C28_Witness ==
    /\ out.check = <<2, "error">>
    /\ 2 \in settled
    /\ Stored(2) = StatusPending
    /\ \E i \in DOMAIN procs :
          /\ procs[i].at = "list_loop"
          /\ Len(procs[i].todo) = 1
          /\ Head(procs[i].todo).id = 1

----------------------------------------------------------------------------
\* Store failures inside the handlers

\* Handler i is gone after the step and a persistence failure was reported.
Aborted(i) ==
    /\ out'.kind = "PersistenceError"
    /\ procs' = SubSeq(procs, 1, i - 1) \o SubSeq(procs, i + 1, Len(procs))

\* The UserExists call of a createOffer failed: the request is of a
\* registered user, with valid terms, and nothing was started.
UserExistsFailed ==
    \E u \in DOMAIN users, args \in SellArgs :
       /\ ~InvalidTerms(args[1], args[2])
       /\ procs' = procs
       /\ SellCmd(u, args[1], args[2])

\* The GetUserOffers call of a listing failed: the user has offers and no
\* loop over them was started.
GetUserOffersFailed ==
    \E u \in UserIDs :
       /\ Len(GetUserOffers(offers, u)) > 0
       /\ procs' = procs
       /\ ListOffersCmd(u)

\* The insert of handler i failed.
CreateOfferFailed(i) == CreateOfferStore(i) /\ offers' = offers

\* The status write of the listing i failed: the row it is for is not paid
\* and is as it was.
ListWriteFailed(i) ==
    /\ ListUpdate(i)
    /\ offers' = offers
    /\ Stored(Head(procs[i].todo).id) # StatusPaid

\* The status write of the callback handler i failed.
CallbackWriteFailed(i) ==
    /\ offers' = offers
    /\ \/ ConfirmUpdate(i) /\ Stored(procs[i].offerID) # StatusCompleted
       \/ CancelUpdate(i) /\ Stored(procs[i].offerID) # StatusCancelled

\* C29: every step in which a Store call of a handler fails (UserExists or
\* the insert of createOffer, the status write of a listing, of
\* confirmPayment or of cancelOffer, the read of a listing) ends the handler
\* and reports a persistence failure.
C29_StoreFailureSurfaced ==
    [][/\ (procs' = procs /\ out'.kind # "PersistenceError") =>
            ~UserExistsFailed /\ ~GetUserOffersFailed
       /\ offers' = offers =>
            \A i \in DOMAIN procs :
               (CreateOfferFailed(i) \/ ListWriteFailed(i) \/ CallbackWriteFailed(i))
                  => Aborted(i)]_vars

----------------------------------------------------------------------------
\* What a rejected callback tells the requester

\* The two callbacks.
Actions == {"confirm", "cancel"}

\* The outcomes that reject a callback.
Rejections == {"Unauthorized", "InvalidState", "PersistenceError", "NotFound"}

\* An offer with status st can be rejected as kind on the callback action.
Rejectable(action, kind, st) ==
    kind = "InvalidState" =>
        IF action = "confirm" THEN ~ConfirmAllowed([status |-> st])
                              ELSE ~CancelAllowed([status |-> st])

\* The step's response was delivered and no rejection of another callback,
\* of another kind or of an offer with a status other than that of offer id
\* has the same text.
TellsApart(action, id) ==
    /\ out'.respond # ""
    /\ \A a \in Actions, k \in Rejections, st \in Statuses :
          (Rejectable(a, k, st) /\ RespondText(a, k, st) = out'.respond) =>
              /\ a = action
              /\ k = out'.kind
              /\ id \in DOMAIN offers => st = Stored(id)

\* C30: every step that rejects a confirm or cancel callback, at the checks
\* or at the status write, delivers a response that tells the requester the
\* callback, the kind of the rejection and the stored status of the offer.
C30_RejectionTellsActionAndStatus ==
    [][out'.kind \in Rejections =>
         /\ procs' = procs =>
               \A u \in UserIDs, id \in OfferIDs :
                  /\ ConfirmPaymentCmd(u, id) => TellsApart("confirm", id)
                  /\ CancelOfferCmd(u, id) => TellsApart("cancel", id)
         /\ \A i \in DOMAIN procs :
               /\ ConfirmUpdate(i) => TellsApart("confirm", procs[i].offerID)
               /\ CancelUpdate(i) => TellsApart("cancel", procs[i].offerID)]_vars

----------------------------------------------------------------------------
\* Amount of the invoice

\* The step is CreateInvoice of handler i and the backend issues the invoice.
Issues(i) == CreateInvoice(i) /\ Len(invoices') = Len(invoices) + 1

\* C31: the amount, in satoshis, of the invoice that createOffer requests for
\* an accepted decimal amount is the exact amount * 10^8 truncated toward
\* zero: the amount is a whole number of units of a tenth of a satoshi, so
\* the exact value is the quotient of that number by 10.
C31_SatsExact ==
    [][\A i \in DOMAIN procs :
         Issues(i) =>
            invoices'[Len(invoices')].sats = procs[i].amountBTC \div UnitsPerSat]_vars

\* C37: every invoice requested from the payment backend is for at least
\* 1 satoshi, and so is the invoice of every persisted offer.
C37_AtLeastOneSat ==
    /\ \A inv \in DOMAIN invoices : invoices[inv].sats >= 1
    /\ \A id \in DOMAIN offers : invoices[offers[id].invoice_id].sats >= 1

----------------------------------------------------------------------------
\* Owner actions on one offer

\* The response of the latest step acknowledges the owner action as done on
\* offer id: kind is "Confirmed" or "Cancelled".
Acknowledged(kind, id) == out.kind = kind /\ out.offer = id

\* C32: for any single offer, once confirmPayment has been acknowledged as
\* successful cancelOffer never is, and once cancelOffer has been
\* acknowledged confirmPayment never is.
C32_ConfirmXorCancel ==
    \A id \in 1..2 :
        /\ [](Acknowledged("Confirmed", id) => []~Acknowledged("Cancelled", id))
        /\ [](Acknowledged("Cancelled", id) => []~Acknowledged("Confirmed", id))

----------------------------------------------------------------------------
\* Who writes paid

\* The step is the status write of a listing requested by the owner of
\* offer id, for that offer.
OwnerListWrite(id) ==
    \E i \in DOMAIN procs :
        /\ At(i, "list_update")
        /\ procs[i].sender = Owner(id)
        /\ Head(procs[i].todo).id = id
        /\ ListUpdate(i)

\* The step is the status write of a cancelOffer requested by the owner of
\* offer id, for that offer.
OwnerCancelWrite(id) ==
    \E i \in DOMAIN procs :
        /\ At(i, "cancel_update")
        /\ procs[i].sender = Owner(id)
        /\ procs[i].offerID = id
        /\ CancelUpdate(i)

\* Every step after which the stored status of an offer is paid, and was not
\* before, is the status write of its owner's listing.
PaidOnlyByOwnerListing ==
    \A id \in DOMAIN offers :
        (Stored(id) # StatusPaid /\ offers'[id].status = StatusPaid)
            => OwnerListWrite(id)

\* C33 as stated: only the owner's own-offers listing writes paid, and a
\* pending offer whose invoice is settled stays pending until a step of its
\* owner's listing.
C33_StaysPendingUntilListed ==
    [][/\ PaidOnlyByOwnerListing
       /\ \A id \in DOMAIN offers :
            (/\ Stored(id) = StatusPending
             /\ offers[id].invoice_id \in settled
             /\ offers'[id].status # StatusPending) => OwnerListWrite(id)]_vars

\* C33, amended: only the owner's own-offers listing writes paid, and a
\* pending offer leaves pending only by the status write of its owner's
\* listing or of its owner's cancelOffer.
C33_PaidOnlyByOwnerListing ==
    [][/\ PaidOnlyByOwnerListing
       /\ \A id \in DOMAIN offers :
            (Stored(id) = StatusPending /\ offers'[id].status # StatusPending)
                => (OwnerListWrite(id) \/ OwnerCancelWrite(id))]_vars

\* The owner's listing has just written paid for an offer whose invoice is
\* settled, and shows it as paid.
C33_Witness ==
    \E id \in DOMAIN offers :
        /\ Stored(id) = StatusPaid
        /\ offers[id].invoice_id \in settled
        /\ out.kind = "Offer" /\ out.offer = id /\ out.status = StatusPaid

----------------------------------------------------------------------------
\* Buttons of the owner's listing

\* C35: when the listing has sent the message of an offer, the message has
\* the Confirm button only if the stored status of that offer is paid, and
\* it never has both the Confirm and the Cancel button.
C35_ConfirmButtonOnlyWhenPaid ==
    out.kind = "Offer" =>
        /\ out.confirm => Stored(out.offer) = StatusPaid
        /\ ~(out.confirm /\ out.cancel)

----------------------------------------------------------------------------
\* What a requester who is not the owner learns

\* C36: for every offer that GetOffer returns, every requester u who is not
\* its owner, either callback and either way the Store answers, the outcome
\* of the callback is the same with each of the four statuses stored for the
\* offer, and the handler does not go on to its status write.
C36_NonOwnerLearnsNoStatus ==
    \A id \in DOMAIN offers : \A u \in UserIDs \ {Owner(id)} :
        \A action \in Actions, dbOK \in BOOLEAN :
            LET reply(status) ==
                    CallbackReply(UpdateOfferStatus(offers, id, status), users,
                                  u, id, action, dbOK)
            IN  \A status \in Statuses :
                    reply(status) = reply(Stored(id)) /\ reply(status) # NoMsg

\* A requester who is not the owner has just been turned down on an offer
\* that is no longer pending.
C36_Witness ==
    /\ out.kind = "Unauthorized"
    /\ \E id \in DOMAIN offers :
          Stored(id) # StatusPending /\ Cardinality(UserIDs \ {Owner(id)}) > 0

----------------------------------------------------------------------------
\* The 20 offers of the marketplace

\* The offers created after offer id.
Newer(id) == {j \in DOMAIN offers : offers[j].created_at > offers[id].created_at}

\* The pending offers among the MarketplaceLimit most recently created
\* offers of any status.
PendingOfLatest ==
    {id \in DOMAIN offers :
        Stored(id) = StatusPending /\ Cardinality(Newer(id)) < MarketplaceLimit}

\* C38: the offers that showMarketplace displays are exactly the pending
\* offers among the 20 most recently created offers of any status; they are
\* at most 20, and a pending offer that has 20 or more newer offers is not
\* among them.
C38_LimitBeforeFilter ==
    [][(ShowMarketplaceCmd /\ out'.kind # "PersistenceError") =>
          /\ out'.shown = PendingOfLatest
          /\ Cardinality(out'.shown) <= MarketplaceLimit
          /\ \A id \in DOMAIN offers :
                (Stored(id) = StatusPending
                    /\ Cardinality(Newer(id)) >= MarketplaceLimit)
                        => id \notin out'.shown]_vars

----------------------------------------------------------------------------
\* Liveness of the reconciliation

\* Offer id is pending and its invoice is settled at the backend.
PaidButPending(id) ==
    Stored(id) = StatusPending /\ offers[id].invoice_id \in settled

\* C34: an offer that is pending while its invoice is settled (a settled
\* invoice stays settled) eventually leaves pending, to paid by a listing of
\* its owner or to cancelled by its owner's cancel, when its owner keeps
\* listing and the backend and the Store eventually answer.
C34_ReconciledEventually ==
    \A id \in 1..2 : PaidButPending(id) ~> (Stored(id) # StatusPending)

====
